---- MODULE Spec2Model ----
(***************************************************************************)
(* cargo-readme: the doc-comment extractor (extract), the line folder      *)
(* (fold_data) and the renderer (generate_readme / process_template) of    *)
(* src/doc.rs.                                                             *)
(*                                                                         *)
(* A Rust String is a sequence of characters, each a TLA+ string: "a",     *)
(* "\n", "BACKTICK" for the backtick and "U+00E9" for a character that    *)
(* takes two bytes in UTF-8.                                               *)
(***************************************************************************)
EXTENDS Integers, Sequences, FiniteSets, TLC

VARIABLES
    entry,           \* the function under execution: extract, fold_data, process_template,
                     \* generate_readme or project_root_dir
    pc,              \* position in that function
    indent_headings, \* extract parameter
    section,         \* extract: section, a Code
    line,            \* extract: the line the closure was last called with
    before,          \* extract: section when the closure was entered with line
    emitted,         \* extract: what the closure returned for line: <<>> (None) or <<l>> (Some(l))
    out,             \* extract: the lines collected so far
    nread,           \* extract: lines taken from the reader so far
    template,        \* renderer: the template (an Option; inside process_template its text)
    tpl,             \* process_template: its local template, the text being substituted
    readme,          \* renderer: readme
    body,            \* renderer: readme as extracted, before any decoration
    crate_info,      \* renderer: the CrateInfo (name, license)
    add_title,       \* renderer: parameter
    add_license,     \* renderer: parameter
    result,          \* renderer: the returned Result, or the panic
    fdata,           \* fold_data: its parameter data, the Vec of lines
    folded,          \* fold_data: the String returned
    currpath,        \* project_root_dir: currpath, the components after the root
    manifests,       \* project_root_dir: the directories that hold a file Cargo.toml
    found            \* project_root_dir: the Option returned

vars == <<entry, pc, indent_headings, section, line, before, emitted, out, nread,
          template, tpl, readme, body, crate_info, add_title, add_license, result,
          fdata, folded, currpath, manifests, found>>

fold_vars == <<fdata, folded>>
root_vars == <<currpath, manifests, found>>
extract_vars == <<indent_headings, section, line, before, emitted, out, nread>>
render_vars == <<template, tpl, readme, body, crate_info, add_title, add_license, result>>

-----------------------------------------------------------------------------
(* Bounds *)

\* lines the reader yields in one run of extract
MaxLines == 3
\* pieces a generated template is made of
MaxParts == 2
\* directories between the filesystem root and the current directory
MaxDepth == 2

-----------------------------------------------------------------------------
(* Strings *)

\* the backtick character
BT == "BACKTICK"

\* the character standing for a two-byte character
WIDE == "U+00E9"

\* [A-Za-z0-9_], and a letter outside ASCII: the regex crate \w is Unicode-aware
WordChars == {
    "a", "b", "c", "d", "e", "f", "g", "h", "i", "j", "k", "l", "m", "n",
    "o", "p", "q", "r", "s", "t", "u", "v", "w", "x", "y", "z", "A", "B",
    "C", "D", "E", "F", "G", "H", "I", "J", "K", "L", "M", "N", "O", "P",
    "Q", "R", "S", "T", "U", "V", "W", "X", "Y", "Z", "0", "1", "2", "3",
    "4", "5", "6", "7", "8", "9", "_",
    WIDE}

\* char::is_whitespace, as str::trim uses it
WhiteSpace == {" ", "\t"}

\* str::len of one character: its UTF-8 width
len_utf8(c) == IF c = WIDE THEN 2 ELSE 1

RECURSIVE byte_len(_)
\* str::len: bytes, not characters
byte_len(s) == IF s = <<>> THEN 0 ELSE len_utf8(Head(s)) + byte_len(Tail(s))

\* str::is_char_boundary
is_char_boundary(s, n) == \E k \in 0..Len(s) : byte_len(SubSeq(s, 1, k)) = n

\* &s[n..] where n is a character boundary
slice_from(s, n) ==
    LET k == CHOOSE k \in 0..Len(s) : byte_len(SubSeq(s, 1, k)) = n
    IN  SubSeq(s, k + 1, Len(s))

\* str::starts_with
starts_with(s, p) == Len(s) >= Len(p) /\ SubSeq(s, 1, Len(p)) = p

\* str::contains, for a non-empty pattern
contains(s, p) == \E i \in 1..(Len(s) - Len(p) + 1) : SubSeq(s, i, i + Len(p) - 1) = p

RECURSIVE replace(_, _, _)
\* str::replace: every non-overlapping match, left to right
replace(s, from, to) ==
    IF Len(s) < Len(from) THEN s
    ELSE IF starts_with(s, from)
         THEN to \o replace(SubSeq(s, Len(from) + 1, Len(s)), from, to)
         ELSE <<Head(s)>> \o replace(Tail(s), from, to)

RECURSIVE trim_left(_)
trim_left(s) == IF s # <<>> /\ Head(s) \in WhiteSpace THEN trim_left(Tail(s)) ELSE s

RECURSIVE trim_right(_)
trim_right(s) ==
    IF s # <<>> /\ s[Len(s)] \in WhiteSpace THEN trim_right(SubSeq(s, 1, Len(s) - 1)) ELSE s

\* str::trim
trim(s) == trim_left(trim_right(s))

RECURSIVE trim_right_matches(_, _)
\* str::trim_right_matches with a one-character pattern
trim_right_matches(s, c) ==
    IF s # <<>> /\ s[Len(s)] = c THEN trim_right_matches(SubSeq(s, 1, Len(s) - 1), c) ELSE s

-----------------------------------------------------------------------------
(* Option *)

None == [some |-> FALSE, v |-> <<>>]
Some(x) == [some |-> TRUE, v |-> x]

-----------------------------------------------------------------------------
(* extract *)

\* enum Code
Code == {"Rust", "Other", "Doc"}

\* "//!"
DocMarker == <<"/", "/", "!">>
\* "//! [3 backticks]"
FenceLine == <<"/", "/", "!", " ", BT, BT, BT>>
\* "//! # "
HiddenPrefix == <<"/", "/", "!", " ", "#", " ">>
\* "[3 backticks]rust"
RustFence == <<BT, BT, BT, "r", "u", "s", "t">>
\* "[3 backticks]"
CloseFence == <<BT, BT, BT>>

\* the alternatives of re_code_rust group
RustQualifiers == {<<"n", "o", "_", "r", "u", "n">>, <<"i", "g", "n", "o", "r", "e">>, <<"s", "h", "o", "u", "l", "d", "_", "p", "a", "n", "i", "c">>}

\* re_code_rust without the qualifier group: ^//! [3 backticks]$
re_code_rust_bare(l) == l = FenceLine

\* Regex ^//! [3 backticks](no_run|ignore|should_panic)?$ : is_match
re_code_rust(l) == l = FenceLine \/ \E q \in RustQualifiers : l = FenceLine \o q

\* Regex //! [3 backticks]\w+ : is_match (not anchored: a match may start anywhere in the line)
re_code_other(l) ==
    \E i \in 1..Len(l) :
        /\ i + Len(FenceLine) <= Len(l)
        /\ SubSeq(l, i, i + Len(FenceLine) - 1) = FenceLine
        /\ l[i + Len(FenceLine)] \in WordChars

\* what one call of the filter_map closure does: the new section, the value
\* returned (None / Some(line)) and whether the call panicked
Closure(sec, ret, panic) == [section |-> sec, ret |-> ret, panic |-> panic]

\* strip_line without the test of the section: a heading is indented in a fence too
strip_line_any_section(sec, l, indent) ==
    IF trim(l) = DocMarker THEN Closure(sec, Some(<<>>), FALSE)
    ELSE IF ~is_char_boundary(l, 4) THEN Closure(sec, None, TRUE)
    ELSE LET s == slice_from(l, 4)
         IN  IF indent /\ starts_with(s, <<"#">>)
             THEN Closure(sec, Some(<<"#">> \o s), FALSE)
             ELSE Closure(sec, Some(s), FALSE)

\* lines 121-132: remove the leading "//!" and indent a heading
strip_line(sec, l, indent) ==
    IF trim(l) = DocMarker THEN Closure(sec, Some(<<>>), FALSE)
    ELSE IF ~is_char_boundary(l, 4) THEN Closure(sec, None, TRUE)
    ELSE LET s == slice_from(l, 4)
         IN  IF indent /\ sec = "Doc" /\ starts_with(s, <<"#">>)
             THEN Closure(sec, Some(<<"#">> \o s), FALSE)
             ELSE Closure(sec, Some(s), FALSE)

\* hide_or_strip hiding in every fence, not only in a Rust one
hide_or_strip_any_fence(sec, l, indent) ==
    IF sec # "Doc" /\ starts_with(l, HiddenPrefix)
    THEN Closure(sec, None, FALSE)
    ELSE strip_line(sec, l, indent)

\* lines 116-132: hide a line rustdoc hides, else strip it
hide_or_strip(sec, l, indent) ==
    IF sec = "Rust" /\ starts_with(l, HiddenPrefix)
    THEN Closure(sec, None, FALSE)
    ELSE strip_line(sec, l, indent)

\* extract_line taking every comment line, "//", as a doc line
extract_line_any_comment(sec, l, indent) ==
    IF starts_with(l, <<"/", "/">>)
    THEN IF sec = "Doc" /\ re_code_rust(l)
         THEN Closure("Rust", Some(RustFence), FALSE)
         ELSE IF sec = "Doc" /\ re_code_other(l)
         THEN hide_or_strip("Other", l, indent)
         ELSE IF sec # "Doc" /\ l = FenceLine
         THEN Closure("Doc", Some(CloseFence), FALSE)
         ELSE hide_or_strip(sec, l, indent)
    ELSE Closure(sec, None, FALSE)

\* extract_line with the two openers tested in every section: a fence opened in a
\* fence replaces it
extract_line_reopen(sec, l, indent) ==
    IF starts_with(l, DocMarker)
    THEN IF re_code_rust(l) /\ (sec = "Doc" \/ l # FenceLine)
         THEN Closure("Rust", Some(RustFence), FALSE)
         ELSE IF re_code_other(l)
         THEN hide_or_strip("Other", l, indent)
         ELSE IF sec # "Doc" /\ l = FenceLine
         THEN Closure("Doc", Some(CloseFence), FALSE)
         ELSE hide_or_strip(sec, l, indent)
    ELSE Closure(sec, None, FALSE)

\* lines 100-136: the closure extract passes to filter_map
extract_line(sec, l, indent) ==
    IF starts_with(l, DocMarker)
    THEN IF sec = "Doc" /\ re_code_rust(l)
         THEN Closure("Rust", Some(RustFence), FALSE)
         ELSE IF sec = "Doc" /\ re_code_other(l)
         THEN hide_or_strip("Other", l, indent)
         ELSE IF sec # "Doc" /\ l = FenceLine
         THEN Closure("Doc", Some(CloseFence), FALSE)
         ELSE hide_or_strip(sec, l, indent)
    ELSE Closure(sec, None, FALSE)

\* Option<String> as the lines it contributes to the collected Vec
lines_of(opt) == IF opt.some THEN <<opt.v>> ELSE <<>>

RECURSIVE extract_from(_, _, _)
\* lines 97-137 on a whole source, from section sec; [panic, lines]
extract_from(sec, src, indent) ==
    IF src = <<>> THEN [panic |-> FALSE, lines |-> <<>>]
    ELSE LET c == extract_line(sec, Head(src), indent)
             r == extract_from(c.section, Tail(src), indent)
         IN  IF c.panic \/ r.panic THEN [panic |-> TRUE, lines |-> <<>>]
             ELSE [panic |-> FALSE, lines |-> lines_of(c.ret) \o r.lines]

\* extract: line 97 sets section to Code::Doc
extract(src, indent) == extract_from("Doc", src, indent)

RECURSIVE fold_from(_, _)
\* the fold of line 234: acc, then "\n" and the line, for each line
fold_from(acc, data) ==
    IF data = <<>> THEN acc ELSE fold_from(acc \o <<"\n">> \o Head(data), Tail(data))

\* fold_data with a newline after every line, the last one too
fold_data_trailing(data) ==
    IF Len(data) < 1 THEN <<>>
    ELSE fold_from(data[1], Tail(data)) \o <<"\n">>

\* fold_data
fold_data(data) ==
    IF Len(data) < 1 THEN <<>>
    ELSE IF Len(data) < 2 THEN data[1]
    ELSE fold_from(data[1], Tail(data))

-----------------------------------------------------------------------------
(* The helpers of the renderer *)

\* "{{crate}}"
CRATE_TAG == <<"{", "{", "c", "r", "a", "t", "e", "}", "}">>
\* "{{license}}"
LICENSE_TAG == <<"{", "{", "l", "i", "c", "e", "n", "s", "e", "}", "}">>
\* "{{readme}}"
README_TAG == <<"{", "{", "r", "e", "a", "d", "m", "e", "}", "}">>

\* the messages of the Err values (the source quotes {{license}} and {{readme}} in
\* backticks, which a string here cannot hold)
ERR_NO_LICENSE == "There is no license in Cargo.toml"
ERR_TEMPLATE_LICENSE == "{{license}} found in template but there is no license in Cargo.toml"
ERR_NO_README == "Missing {{readme}} in template"
ERR_NOT_PROJECT == "Not in a rust project"
\* the messages of the panics
PANIC_UNWRAP == "called Option::unwrap() on a None value"
PANIC_BOUNDARY == "byte index 4 is not a char boundary"

NoResult == [kind |-> "none", val |-> <<>>, err |-> ""]
Ok(s) == [kind |-> "Ok", val |-> s, err |-> ""]
Err(m) == [kind |-> "Err", val |-> <<>>, err |-> m]
Panic(m) == [kind |-> "Panic", val |-> <<>>, err |-> m]

\* prepend_title: format!("# {}\n\n", crate_name) and then the readme
prepend_title(r, crate_name) == <<"#", " ">> \o crate_name \o <<"\n", "\n">> \o r

\* append_license: format!("{}\n\nLicense: {}", readme, license)
append_license(r, license) == r \o <<"\n", "\n">> \o <<"L", "i", "c", "e", "n", "s", "e", ":", " ">> \o license

\* struct CrateInfo (name, license), as get_crate_info returns it: Ok, or Err
CrateInfo(name, license) == [ok |-> TRUE, name |-> name, license |-> license]
NoCrateInfo == [ok |-> FALSE, name |-> <<>>, license |-> None]

-----------------------------------------------------------------------------
(* Inputs *)

\* the lines a source file is made of
Lines == {
    <<"/", "/", "!", " ", "a">>,
    <<"/", "/", "!">>,
    <<"/", "/", "!", " ">>,
    <<"/", "/", "!", " ", BT, BT, BT>>,
    <<"/", "/", "!", " ", BT, BT, BT, "n", "o", "_", "r", "u", "n">>,
    <<"/", "/", "!", " ", BT, BT, BT, "i", "g", "n", "o", "r", "e">>,
    <<"/", "/", "!", " ", BT, BT, BT, "s", "h", "o", "u", "l", "d", "_", "p", "a", "n", "i", "c">>,
    <<"/", "/", "!", " ", BT, BT, BT, "C">>,
    <<"/", "/", "!", " ", BT, BT, BT, "r", "u", "s", "t">>,
    <<"/", "/", "!", " ", "#", " ", "a">>,
    <<"/", "/", "!", " ", "#", "a">>,
    <<"/", "/", "!", " ", "#", " ", "/", "/", "!", " ", BT, BT, BT, "C">>,
    <<"/", "/", "!", "a", "b">>,
    <<"/", "/", "!", WIDE>>,
    <<"f", "n">>,
    <<"/", "/", " ", "a">> }

\* whole sources, for generate_readme
Sources == {
    <<>>,
    << <<"/", "/", "!", " ", "#", " ", "d", "o", "c">>, <<"f", "n">> >>,
    << <<"/", "/", "!", WIDE>> >> }

\* the readme text process_template is called with
Bodies == { <<"#", " ", "d", "o", "c">>, <<"{", "{", "c", "r", "a", "t", "e", "}", "}", " ", "{", "{", "l", "i", "c", "e", "n", "s", "e", "}", "}", " ", "{", "{", "r", "e", "a", "d", "m", "e", "}", "}">> }

\* the pieces a template is made of
Pieces == { CRATE_TAG, LICENSE_TAG, README_TAG, <<"\n">>, <<"#", " ">> }

RECURSIVE TemplatesOf(_)
\* the texts of at most n pieces
TemplatesOf(n) ==
    IF n = 0 THEN {<<>>}
    ELSE LET prev == TemplatesOf(n - 1) IN prev \cup {t \o p : t \in prev, p \in Pieces}

\* the templates of the tests
TEMPLATE_NO_CRATE_NO_LICENSE == README_TAG
TEMPLATE_CRATE_NO_LICENSE == <<"#", " ">> \o CRATE_TAG \o <<"\n", "\n">> \o README_TAG
TEMPLATE_NO_CRATE_LICENSE == README_TAG \o <<"\n", "\n">> \o <<"L", "i", "c", "e", "n", "s", "e", ":", " ">> \o LICENSE_TAG
TEMPLATE_CRATE_LICENSE ==
    <<"#", " ">> \o CRATE_TAG \o <<"\n", "\n">> \o README_TAG \o <<"\n", "\n">> \o <<"L", "i", "c", "e", "n", "s", "e", ":", " ">> \o LICENSE_TAG

Templates ==
    TemplatesOf(MaxParts) \cup {TEMPLATE_NO_CRATE_NO_LICENSE, TEMPLATE_CRATE_NO_LICENSE,
                                TEMPLATE_NO_CRATE_LICENSE, TEMPLATE_CRATE_LICENSE}

CrateNames == { <<"m", "y", "_", "c", "r", "a", "t", "e">> }
Licenses == { None, Some(<<"M", "I", "T">>) }
CrateInfos == { CrateInfo(n, l) : n \in CrateNames, l \in Licenses }

-----------------------------------------------------------------------------
(* Initial states: a call of extract, of process_template or of generate_readme *)

\* fold_data and project_root_dir are not running
NoFoldNoRoot ==
    /\ fdata = <<>>
    /\ folded = <<>>
    /\ currpath = <<>>
    /\ manifests = {}
    /\ found = None

NoExtract ==
    /\ NoFoldNoRoot
    /\ section = "Doc"
    /\ line = <<>>
    /\ before = "Doc"
    /\ emitted = <<>>
    /\ out = <<>>
    /\ nread = 0

InitExtract ==
    /\ entry = "extract"
    /\ pc = "lines"
    /\ indent_headings \in BOOLEAN
    /\ NoExtract
    /\ template = None
    /\ tpl = <<>>
    /\ readme = <<>>
    /\ body = <<>>
    /\ crate_info = NoCrateInfo
    /\ add_title = FALSE
    /\ add_license = FALSE
    /\ result = NoResult

InitProcessTemplate ==
    /\ entry = "process_template"
    /\ pc = "get_template"
    /\ indent_headings = FALSE
    /\ NoExtract
    /\ template \in {Some(t) : t \in Templates}
    /\ tpl = <<>>
    /\ readme \in Bodies
    /\ body = readme
    /\ crate_info \in CrateInfos
    /\ add_title \in BOOLEAN
    /\ add_license \in BOOLEAN
    /\ result = NoResult

InitGenerateReadme ==
    /\ entry = "generate_readme"
    /\ pc = "extract"
    /\ indent_headings \in BOOLEAN
    /\ NoExtract
    /\ template \in {None} \cup {Some(t) : t \in Templates}
    /\ tpl = <<>>
    /\ readme = <<>>
    /\ body = <<>>
    /\ crate_info \in CrateInfos \cup {NoCrateInfo}
    /\ add_title \in BOOLEAN
    /\ add_license \in BOOLEAN
    /\ result = NoResult

\* the renderer is not running
NoRender ==
    /\ template = None
    /\ tpl = <<>>
    /\ readme = <<>>
    /\ body = <<>>
    /\ crate_info = NoCrateInfo
    /\ add_title = FALSE
    /\ add_license = FALSE
    /\ result = NoResult

\* the texts of the lines fold_data is called with
FoldTexts == { <<>>, <<"a">>, <<"#", " ", "b">> }

RECURSIVE SeqsOf(_, _)
\* the sequences of at most n elements of set
SeqsOf(set, n) ==
    IF n = 0 THEN {<<>>}
    ELSE LET prev == SeqsOf(set, n - 1) IN prev \cup {Append(s, x) : s \in prev, x \in set}

InitFoldData ==
    /\ entry = "fold_data"
    /\ pc = "fold"
    /\ indent_headings = FALSE
    /\ section = "Doc"
    /\ line = <<>>
    /\ before = "Doc"
    /\ emitted = <<>>
    /\ out = <<>>
    /\ nread = 0
    /\ NoRender
    /\ fdata \in SeqsOf(FoldTexts, MaxLines)
    /\ folded = <<>>
    /\ currpath = <<>>
    /\ manifests = {}
    /\ found = None

\* the directory n levels below the filesystem root; the root is <<>>
Dir(n) == [i \in 1..n |-> "d"]

\* line 28: env::current_dir(), and a filesystem: which of the current directory
\* and the directories above it hold a file Cargo.toml
InitProjectRootDir ==
    /\ entry = "project_root_dir"
    /\ pc = "walk"
    /\ indent_headings = FALSE
    /\ section = "Doc"
    /\ line = <<>>
    /\ before = "Doc"
    /\ emitted = <<>>
    /\ out = <<>>
    /\ nread = 0
    /\ NoRender
    /\ fdata = <<>>
    /\ folded = <<>>
    /\ \E depth \in 0..MaxDepth :
         /\ currpath = Dir(depth)
         /\ manifests \in SUBSET {Dir(k) : k \in 0..depth}
    /\ found = None

Init ==
    \/ InitExtract
    \/ InitProcessTemplate
    \/ InitGenerateReadme
    \/ InitFoldData
    \/ InitProjectRootDir

-----------------------------------------------------------------------------
(* extract, line by line *)

\* ExtractLine with the returned line put in front of the collected lines
ExtractLine_prepend ==
    /\ entry = "extract"
    /\ pc = "lines"
    /\ nread < MaxLines
    /\ \E l \in Lines :
         LET c == extract_line(section, l, indent_headings)
         IN  /\ line' = l
             /\ before' = section
             /\ section' = c.section
             /\ emitted' = lines_of(c.ret)
             /\ out' = IF c.panic THEN <<>> ELSE lines_of(c.ret) \o out
             /\ pc' = IF c.panic THEN "panicked" ELSE "lines"
    /\ nread' = nread + 1
    /\ UNCHANGED <<entry, fold_vars, root_vars, indent_headings>>
    /\ UNCHANGED render_vars

\* lines 99-136: the reader yields a line (line.unwrap() is taken to succeed) and
\* filter_map calls the closure with it
ExtractLine ==
    /\ entry = "extract"
    /\ pc = "lines"
    /\ nread < MaxLines
    /\ \E l \in Lines :
         LET c == extract_line(section, l, indent_headings)
         IN  /\ line' = l
             /\ before' = section
             /\ section' = c.section
             /\ emitted' = lines_of(c.ret)
             /\ out' = IF c.panic THEN <<>> ELSE out \o lines_of(c.ret)
             /\ pc' = IF c.panic THEN "panicked" ELSE "lines"
    /\ nread' = nread + 1
    /\ UNCHANGED <<entry, fold_vars, root_vars, indent_headings>>
    /\ UNCHANGED render_vars

\* line 137: the reader is exhausted and collect returns the Vec
ExtractReturn ==
    /\ entry = "extract"
    /\ pc = "lines"
    /\ pc' = "done"
    /\ UNCHANGED <<entry, fold_vars, root_vars, extract_vars>>
    /\ UNCHANGED render_vars

-----------------------------------------------------------------------------
(* generate_readme *)

\* lines 61-62: extract the source and fold the lines
GenerateExtract ==
    /\ entry = "generate_readme"
    /\ pc = "extract"
    /\ \E src \in Sources :
         LET doc_data == extract(src, indent_headings)
         IN  IF doc_data.panic
             THEN /\ result' = Panic(PANIC_BOUNDARY)
                  /\ pc' = "done"
                  /\ UNCHANGED <<readme, body>>
             ELSE /\ readme' = fold_data(doc_data.lines)
                  /\ body' = readme'
                  /\ pc' = "get_crate_info"
                  /\ UNCHANGED result
    /\ UNCHANGED <<entry, fold_vars, root_vars, extract_vars, template, tpl, crate_info, add_title, add_license>>

\* line 64: try!(get_crate_info())
GetCrateInfo ==
    /\ entry = "generate_readme"
    /\ pc = "get_crate_info"
    /\ IF crate_info.ok
       THEN pc' = "check_license" /\ UNCHANGED result
       ELSE pc' = "done" /\ result' = Err(ERR_NOT_PROJECT)
    /\ UNCHANGED <<entry, fold_vars, root_vars, extract_vars, template, tpl, readme, body, crate_info,
                   add_title, add_license>>

\* the test of line 65 never true: generate_readme without its license check
generate_readme_unchecked(al, info) == FALSE

\* the test of line 65
generate_readme_no_license(al, info) == al /\ ~info.license.some

\* lines 65-67
CheckLicense ==
    /\ entry = "generate_readme"
    /\ pc = "check_license"
    /\ IF generate_readme_no_license(add_license, crate_info)
       THEN pc' = "done" /\ result' = Err(ERR_NO_LICENSE)
       ELSE pc' = "match_template" /\ UNCHANGED result
    /\ UNCHANGED <<entry, fold_vars, root_vars, extract_vars, template, tpl, readme, body, crate_info,
                   add_title, add_license>>

\* decorate with the title whether or not it is asked for
decorate_title_always(r, info, at, al) ==
    LET titled == prepend_title(r, info.name)
    IN  IF al
        THEN IF info.license.some
             THEN [panic |-> FALSE, readme |-> append_license(titled, info.license.v)]
             ELSE [panic |-> TRUE, readme |-> titled]
        ELSE [panic |-> FALSE, readme |-> titled]

\* lines 72-80: the readme of the None arm; [panic, readme]
decorate(r, info, at, al) ==
    LET titled == IF at THEN prepend_title(r, info.name) ELSE r
    IN  IF al
        THEN IF info.license.some
             THEN [panic |-> FALSE, readme |-> append_license(titled, info.license.v)]
             ELSE [panic |-> TRUE, readme |-> titled]
        ELSE [panic |-> FALSE, readme |-> titled]

\* lines 69-82: match template.as_mut()
MatchTemplate ==
    /\ entry = "generate_readme"
    /\ pc = "match_template"
    /\ IF template.some
       THEN /\ pc' = "get_template"
            /\ UNCHANGED <<readme, result>>
       ELSE LET d == decorate(readme, crate_info, add_title, add_license)
            IN  /\ pc' = "done"
                /\ readme' = d.readme
                /\ result' = IF d.panic THEN Panic(PANIC_UNWRAP) ELSE Ok(d.readme)
    /\ UNCHANGED <<entry, fold_vars, root_vars, extract_vars, template, tpl, body, crate_info, add_title, add_license>>

-----------------------------------------------------------------------------
(* process_template *)

\* lines 150-151: read the template (the read is taken to succeed) and trim the
\* newlines that end it
GetTemplate ==
    /\ pc = "get_template"
    /\ tpl' = trim_right_matches(template.v, "\n")
    /\ pc' = "title"
    /\ UNCHANGED <<entry, fold_vars, root_vars, extract_vars, template, readme, body, crate_info,
                   add_title, add_license, result>>

\* title_step with the title prepended whenever it is asked for
title_step_flag_wins(t, r, info, at) ==
    IF at
    THEN [template |-> replace(t, CRATE_TAG, info.name), readme |-> prepend_title(r, info.name)]
    ELSE [template |-> replace(t, CRATE_TAG, info.name), readme |-> r]

\* lines 153-157: the title, or the crate name into the template
title_step(t, r, info, at) ==
    IF at /\ ~contains(t, CRATE_TAG)
    THEN [template |-> t, readme |-> prepend_title(r, info.name)]
    ELSE [template |-> replace(t, CRATE_TAG, info.name), readme |-> r]

Title ==
    /\ pc = "title"
    /\ LET s == title_step(tpl, readme, crate_info, add_title)
       IN  tpl' = s.template /\ readme' = s.readme
    /\ pc' = "license_check"
    /\ UNCHANGED <<entry, fold_vars, root_vars, extract_vars, template, body, crate_info,
                   add_title, add_license, result>>

\* license_check without the second test (lines 163-165)
license_check_template_only(t, info, al) ==
    IF contains(t, LICENSE_TAG) /\ ~info.license.some THEN Err(ERR_TEMPLATE_LICENSE)
    ELSE NoResult

\* lines 159-165: the two early returns; NoResult when neither is taken
license_check(t, info, al) ==
    IF contains(t, LICENSE_TAG) /\ ~info.license.some THEN Err(ERR_TEMPLATE_LICENSE)
    ELSE IF al /\ ~info.license.some THEN Err(ERR_NO_LICENSE)
    ELSE NoResult

LicenseCheck ==
    /\ pc = "license_check"
    /\ result' = license_check(tpl, crate_info, add_license)
    /\ pc' = IF result'.kind = "none" THEN "license" ELSE "done"
    /\ UNCHANGED <<entry, fold_vars, root_vars, extract_vars, template, tpl, readme, body, crate_info,
                   add_title, add_license>>

\* license_step with the license line appended whenever it is asked for
license_step_flag_wins(t, r, info, al) ==
    IF ~info.license.some
    THEN [panic |-> al \/ contains(t, LICENSE_TAG), template |-> t, readme |-> r]
    ELSE [panic |-> FALSE,
          template |-> replace(t, LICENSE_TAG, info.license.v),
          readme |-> IF al THEN append_license(r, info.license.v) ELSE r]

\* lines 167-171: the license line, or the license into the template;
\* license.unwrap() panics on None
license_step(t, r, info, al) ==
    IF al /\ ~contains(t, LICENSE_TAG)
    THEN IF info.license.some
         THEN [panic |-> FALSE, template |-> t, readme |-> append_license(r, info.license.v)]
         ELSE [panic |-> TRUE, template |-> t, readme |-> r]
    ELSE IF contains(t, LICENSE_TAG)
    THEN IF info.license.some
         THEN [panic |-> FALSE, template |-> replace(t, LICENSE_TAG, info.license.v), readme |-> r]
         ELSE [panic |-> TRUE, template |-> t, readme |-> r]
    ELSE [panic |-> FALSE, template |-> t, readme |-> r]

License ==
    /\ pc = "license"
    /\ LET s == license_step(tpl, readme, crate_info, add_license)
       IN  /\ tpl' = s.template
           /\ readme' = s.readme
           /\ pc' = IF s.panic THEN "done" ELSE "body"
           /\ result' = IF s.panic THEN Panic(PANIC_UNWRAP) ELSE result
    /\ UNCHANGED <<entry, fold_vars, root_vars, extract_vars, template, body, crate_info, add_title, add_license>>

\* body_step without the test of line 173
body_step_unchecked(t, r) == Ok(replace(t, README_TAG, r))

\* body_step substituting a second time, into the readme just inserted too
body_step_rescan(t, r) ==
    IF ~contains(t, README_TAG) THEN Err(ERR_NO_README)
    ELSE Ok(replace(replace(t, README_TAG, r), README_TAG, r))

\* lines 173-178: the readme into the template
body_step(t, r) ==
    IF ~contains(t, README_TAG) THEN Err(ERR_NO_README) ELSE Ok(replace(t, README_TAG, r))

Body ==
    /\ pc = "body"
    /\ result' = body_step(tpl, readme)
    /\ pc' = "done"
    /\ UNCHANGED <<entry, fold_vars, root_vars, extract_vars, template, tpl, readme, body, crate_info,
                   add_title, add_license>>

-----------------------------------------------------------------------------
(* fold_data *)

\* lines 228-236
FoldData ==
    /\ entry = "fold_data"
    /\ pc = "fold"
    /\ folded' = fold_data(fdata)
    /\ pc' = "done"
    /\ UNCHANGED <<entry, fdata, root_vars, extract_vars>>
    /\ UNCHANGED render_vars

-----------------------------------------------------------------------------
(* project_root_dir *)

\* Path::parent: None for the root
parent(p) == IF p = <<>> THEN None ELSE Some(SubSeq(p, 1, Len(p) - 1))

\* PathBuf::push of a relative component
push(p, name) == Append(p, name)

\* PathBuf::pop: truncate to the parent, or do nothing if there is none
pop(p) == IF parent(p).some THEN parent(p).v ELSE p

\* lines 30-38: fs::metadata(p) is Ok and a file
is_file(p) == p # <<>> /\ p[Len(p)] = "Cargo.toml" /\ parent(p).v \in manifests

\* the test of the while loop, line 40
walk_on(p) == parent(p).some

\* lines 40-50: one turn of the while loop, or the return of None after it
ProjectRootWalk ==
    /\ entry = "project_root_dir"
    /\ pc = "walk"
    /\ IF walk_on(currpath)
       THEN LET toml == push(currpath, "Cargo.toml")
            IN  IF is_file(toml)
                THEN /\ currpath' = pop(toml)
                     /\ found' = Some(currpath')
                     /\ pc' = "done"
                ELSE /\ currpath' = pop(pop(toml))
                     /\ found' = found
                     /\ pc' = "walk"
       ELSE /\ found' = None
            /\ pc' = "done"
            /\ UNCHANGED currpath
    /\ UNCHANGED <<entry, manifests, fold_vars, extract_vars>>
    /\ UNCHANGED render_vars

-----------------------------------------------------------------------------

Next ==
    \/ FoldData
    \/ ProjectRootWalk
    \/ ExtractLine
    \/ ExtractReturn
    \/ GenerateExtract
    \/ GetCrateInfo
    \/ CheckLicense
    \/ MatchTemplate
    \/ GetTemplate
    \/ Title
    \/ LicenseCheck
    \/ License
    \/ Body

Spec == Init /\ [][Next]_vars

-----------------------------------------------------------------------------
(* Properties of extract.  They read the last call of the closure: line    *)
(* is the line it was called with, before and section the section on       *)
(* entry and on return, emitted what it returned.                          *)

\* a call of the closure has returned
LineDone == entry = "extract" /\ nread > 0 /\ pc # "panicked"

\* the lines that open a Rust code block: "//! [3 backticks]" and the same with a qualifier
HostFenceOpeners == {
    <<"/", "/", "!", " ", BT, BT, BT>>,
    <<"/", "/", "!", " ", BT, BT, BT, "n", "o", "_", "r", "u", "n">>,
    <<"/", "/", "!", " ", BT, BT, BT, "i", "g", "n", "o", "r", "e">>,
    <<"/", "/", "!", " ", BT, BT, BT, "s", "h", "o", "u", "l", "d", "_", "p", "a", "n", "i", "c">> }

\* "//! [3 backticks]" and then one word that is no qualifier
IsOtherTagged(l) ==
    /\ Len(l) > 7
    /\ SubSeq(l, 1, 7) = <<"/", "/", "!", " ", BT, BT, BT>>
    /\ \A i \in 8..Len(l) : l[i] \in WordChars
    /\ SubSeq(l, 8, Len(l)) \notin {<<"n", "o", "_", "r", "u", "n">>, <<"i", "g", "n", "o", "r", "e">>, <<"s", "h", "o", "u", "l", "d", "_", "p", "a", "n", "i", "c">>}

\* the line without its first four characters, "//! "
Stripped(l) == SubSeq(l, 5, Len(l))

\* C1: in Prose (Code::Doc) a line that is "//! [3 backticks]", alone or with one of
\* no_run, ignore, should_panic, is emitted as "[3 backticks]rust" and the section
\* becomes Rust; "//! [3 backticks]" with any other word is emitted as it is, tag
\* included, and the section becomes Other; in a fence of either kind the line
\* "//! [3 backticks]" is emitted as "[3 backticks]" and the section becomes Doc.
C1_FenceDelimiters ==
    LineDone =>
        /\ (before = "Doc" /\ line \in HostFenceOpeners) =>
               (emitted = << <<BT, BT, BT, "r", "u", "s", "t">> >> /\ section = "Rust")
        /\ (before = "Doc" /\ IsOtherTagged(line)) =>
               (emitted = << Stripped(line) >> /\ section = "Other")
        /\ (before \in {"Rust", "Other"} /\ line = <<"/", "/", "!", " ", BT, BT, BT>>) =>
               (emitted = << <<BT, BT, BT>> >> /\ section = "Doc")

\* a Rust block opened with a qualifier and closed, then a block tagged C opened
C1_Witness ==
    /\ LineDone
    /\ before = "Doc"
    /\ line = <<"/", "/", "!", " ", BT, BT, BT, "C">>
    /\ section = "Other"
    /\ out = << <<BT, BT, BT, "r", "u", "s", "t">>, <<BT, BT, BT>>, <<BT, BT, BT, "C">> >>

\* C2: a line that begins with "//! # " gives no output line when the section is
\* Rust, and gives one output line when the section is Doc or Other (the section
\* the closure was entered with, and the section it tests at line 117).
C2_HiddenLines ==
    (LineDone /\ Len(line) >= 6 /\ SubSeq(line, 1, 6) = <<"/", "/", "!", " ", "#", " ">>) =>
        /\ before = "Rust" => (emitted = <<>> /\ section = "Rust")
        /\ section = "Rust" => emitted = <<>>
        /\ before \in {"Doc", "Other"} => Len(emitted) = 1
        /\ section \in {"Doc", "Other"} => Len(emitted) = 1

\* the same line emitted in Prose and then hidden in a Rust block
C2_Witness ==
    /\ LineDone
    /\ ~indent_headings
    /\ line = <<"/", "/", "!", " ", "#", " ", "a">>
    /\ before = "Rust"
    /\ emitted = <<>>
    /\ out = << <<"#", " ", "a">>, <<BT, BT, BT, "r", "u", "s", "t">> >>

\* C3: an emitted line whose stripped text begins with "#" is emitted with one more
\* "#" in front when indent_headings is set and the section it is emitted in is Doc,
\* and is emitted as it is in a fence (Rust or Other) or when indent_headings is
\* not set.
C3_HeadingIndent ==
    (LineDone /\ emitted # <<>> /\ Len(line) >= 5 /\ line[5] = "#") =>
        emitted[1] = IF indent_headings /\ section = "Doc"
                     THEN <<"#">> \o Stripped(line)
                     ELSE Stripped(line)

\* a heading indented in Prose and the same line left alone in a block tagged C
C3_Witness ==
    /\ LineDone
    /\ indent_headings
    /\ line = <<"/", "/", "!", " ", "#", "a">>
    /\ section = "Other"
    /\ out = << <<"#", "#", "a">>, <<BT, BT, BT, "C">>, <<"#", "a">> >>

-----------------------------------------------------------------------------
(* Properties of the renderer.  template.v is the template as given, body  *)
(* the readme as extracted; tpl and readme are the locals of               *)
(* process_template as the steps have left them.                           *)

\* "# <name>\n\n"
TitleOf(name) == <<"#", " ">> \o name \o <<"\n", "\n">>

\* "\n\nLicense: <license>"
LicenseLineOf(license) == <<"\n", "\n">> \o <<"L", "i", "c", "e", "n", "s", "e", ":", " ">> \o license

HasCrateTag == contains(template.v, <<"{", "{", "c", "r", "a", "t", "e", "}", "}">>)
HasLicenseTag == contains(template.v, <<"{", "{", "l", "i", "c", "e", "n", "s", "e", "}", "}">>)
HasReadmeTag == contains(template.v, <<"{", "{", "r", "e", "a", "d", "m", "e", "}", "}">>)

\* the template as given, without the newlines that end it
Trimmed == trim_right_matches(template.v, "\n")

\* the readme once the title step has run
TitledBody == IF add_title /\ ~HasCrateTag THEN TitleOf(crate_info.name) \o body ELSE body

\* generate_readme has extracted the body and read the crate information
Rendering == entry = "generate_readme" /\ crate_info.ok /\ result # Panic(PANIC_BOUNDARY)

C5_LicensePrecedence ==
    (pc = "body" /\ crate_info.license.some) =>
        IF HasLicenseTag
        THEN /\ readme = TitledBody
             /\ ~contains(tpl, <<"{", "{", "l", "i", "c", "e", "n", "s", "e", "}", "}">>)
             /\ tpl = replace(replace(Trimmed, <<"{", "{", "c", "r", "a", "t", "e", "}", "}">>, crate_info.name),
                              <<"{", "{", "l", "i", "c", "e", "n", "s", "e", "}", "}">>, crate_info.license.v)
        ELSE /\ tpl = replace(Trimmed, <<"{", "{", "c", "r", "a", "t", "e", "}", "}">>, crate_info.name)
             /\ readme = IF add_license
                         THEN TitledBody \o LicenseLineOf(crate_info.license.v)
                         ELSE TitledBody

\* the license line asked for and the template declaring "{{license}}"
C5_Witness ==
    /\ pc = "done"
    /\ add_license
    /\ ~add_title
    /\ template = Some(TEMPLATE_NO_CRATE_LICENSE)
    /\ body = <<"#", " ", "d", "o", "c">>
    /\ readme = body
    /\ result = Ok(<<"#", " ", "d", "o", "c">> \o <<"\n", "\n">> \o <<"L", "i", "c", "e", "n", "s", "e", ":", " ", "M", "I", "T">>)

\* C6 as claimed: rendering with a template that contains "{{license}}" and no
\* license in the crate information fails with the "{{license}} found in template
\* but there is no license" error, whatever add_license is.
C6_TemplateLicenseError ==
    (pc = "done" /\ template.some /\ HasLicenseTag /\ ~crate_info.license.some
        /\ (entry = "process_template" \/ Rendering)) =>
        result = Err(ERR_TEMPLATE_LICENSE)

\* C7: when add_license is set and the crate information has no license, rendering
\* ends with an Err, never with Ok (nor with a panic of license.unwrap()); with no
\* template, or a template without "{{license}}", the error is "There is no license
\* in Cargo.toml".
C7_MissingLicense ==
    (pc = "done" /\ add_license /\ ~crate_info.license.some
        /\ (entry = "process_template" \/ Rendering)) =>
        /\ result.kind = "Err"
        /\ (~template.some \/ ~HasLicenseTag) => result = Err(ERR_NO_LICENSE)

\* process_template itself, called with a template that has only "{{readme}}"
C7_Witness ==
    /\ pc = "done"
    /\ entry = "process_template"
    /\ add_license
    /\ ~crate_info.license.some
    /\ template = Some(TEMPLATE_NO_CRATE_NO_LICENSE)
    /\ result = Err(ERR_NO_LICENSE)

\* C8 as claimed: process_template with a template without "{{readme}}" fails with
\* the "Missing {{readme}} in template" error, whatever the other arguments are.
C8_Original ==
    (pc = "done" /\ entry = "process_template" /\ ~HasReadmeTag) =>
        result = Err(ERR_NO_README)

\* C8: process_template with a template without "{{readme}}" returns an Err, never
\* Ok: the "{{license}} found in template" error if the crate has no license and the
\* template contains "{{license}}", else the "There is no license" error if the
\* crate has no license and add_license is set, else the "Missing {{readme}}" error.
C8_NoReadmeTagFails ==
    (pc = "done" /\ entry = "process_template" /\ ~HasReadmeTag) =>
        result = Err(IF ~crate_info.license.some /\ HasLicenseTag THEN ERR_TEMPLATE_LICENSE
                     ELSE IF ~crate_info.license.some /\ add_license THEN ERR_NO_LICENSE
                     ELSE ERR_NO_README)

\* a template with the two other tags, every option set, a license: Missing readme
C8_Witness ==
    /\ pc = "done"
    /\ entry = "process_template"
    /\ template = Some(<<"{", "{", "c", "r", "a", "t", "e", "}", "}", "{", "{", "l", "i", "c", "e", "n", "s", "e", "}", "}">>)
    /\ add_title
    /\ add_license
    /\ crate_info.license.some
    /\ result = Err(ERR_NO_README)

\* C9: generate_readme without a template returns Err("There is no license in
\* Cargo.toml") if add_license is set and the crate has no license, and otherwise
\* Ok of: "# <name>\n\n" if add_title, then the body, then "\n\nLicense: <license>"
\* if add_license.
C9_NoTemplate ==
    (pc = "done" /\ Rendering /\ ~template.some) =>
        IF add_license /\ ~crate_info.license.some
        THEN result = Err(ERR_NO_LICENSE)
        ELSE result = Ok((IF add_title THEN TitleOf(crate_info.name) ELSE <<>>)
                         \o body
                         \o (IF add_license THEN LicenseLineOf(crate_info.license.v) ELSE <<>>))

\* title and license line around an extracted body
C9_Witness ==
    /\ pc = "done"
    /\ entry = "generate_readme"
    /\ ~template.some
    /\ body = <<"#", "#", " ", "d", "o", "c">>
    /\ result = Ok(<<"#", " ", "m", "y", "_", "c", "r", "a", "t", "e">> \o <<"\n", "\n">> \o <<"#", "#", " ", "d", "o", "c">> \o <<"\n", "\n">> \o <<"L", "i", "c", "e", "n", "s", "e", ":", " ", "M", "I", "T">>)

-----------------------------------------------------------------------------
(* More properties of extract *)

\* the line returned is a fence delimiter the closure made up (lines 107 and 113)
Synthesized ==
    \/ before = "Doc" /\ line \in HostFenceOpeners
    \/ before # "Doc" /\ line = <<"/", "/", "!", " ", BT, BT, BT>>

\* C11 as claimed: an emitted line that is no synthesized fence delimiter is, heading
\* indent apart, the input line without "//! " (the marker and one space), or is
\* empty when the input line is the marker alone: nothing else is dropped.
C11_OnlyMarkerAndSpaceRemoved ==
    (LineDone /\ emitted # <<>> /\ ~Synthesized) =>
        \/ line = <<"/", "/", "!">> /\ emitted[1] = <<>>
        \/ /\ Len(line) >= 4
           /\ SubSeq(line, 1, 4) = <<"/", "/", "!", " ">>
           /\ emitted[1] \in {Stripped(line), <<"#">> \o Stripped(line)}

\* C12 as claimed: a fence-open line read inside a fence sets the section to the
\* kind of the fence it opens (Rust for the host pattern, Other for a tagged one).
C12_Original ==
    (LineDone /\ before \in {"Rust", "Other"}) =>
        /\ line \in HostFenceOpeners => section = "Rust"
        /\ IsOtherTagged(line) => section = "Other"

\* C12: a fence-open line with a qualifier or a language tag read inside a fence
\* leaves the section as it was (the fence opened first stays) and is emitted as its
\* stripped text; the bare "//! [3 backticks]" read there closes the fence.
C12_FirstFenceStays ==
    (LineDone /\ before \in {"Rust", "Other"}) =>
        /\ (line \in HostFenceOpeners \ {<<"/", "/", "!", " ", BT, BT, BT>>} \/ IsOtherTagged(line)) =>
               (section = before /\ emitted = << Stripped(line) >>)
        /\ line = <<"/", "/", "!", " ", BT, BT, BT>> => section = "Doc"

\* a block tagged C opened inside a Rust block: the section is still Rust
C12_Witness ==
    /\ LineDone
    /\ before = "Rust"
    /\ line = <<"/", "/", "!", " ", BT, BT, BT, "C">>
    /\ section = "Rust"
    /\ out = << <<BT, BT, BT, "r", "u", "s", "t">>, <<BT, BT, BT, "C">> >>


\* C13: every line the reader yields adds at most one line to the output, at its
\* end, so the output keeps the order of the input; an added line comes from a line
\* that begins with "//!" and is its stripped text, that text with one "#" in front,
\* or one of the two fence delimiters.
C13_OrderPreserved ==
    [][(entry = "extract" /\ pc = "lines" /\ pc' = "lines" /\ nread' = nread + 1) =>
           /\ Len(emitted') <= 1
           /\ out' = out \o emitted'
           /\ emitted' # <<>> =>
                  /\ Len(line') >= 3 /\ SubSeq(line', 1, 3) = <<"/", "/", "!">>
                  /\ emitted'[1] \in {Stripped(line'), <<"#">> \o Stripped(line'),
                                      <<BT, BT, BT, "r", "u", "s", "t">>, <<BT, BT, BT>>}]_vars

\* three lines read, the second unmarked: two output lines in the order read
C13_Witness ==
    /\ LineDone
    /\ nread = 3
    /\ line = <<"/", "/", "!", " ", "#", "a">>
    /\ emitted = << <<"#", "a">> >>
    /\ out = << <<"a">>, <<"#", "a">> >>

\* the output read as Markdown: "none" outside a code block, "rust" in a block opened
\* by "[3 backticks]rust", "other" in a block opened by another delimiter
RECURSIVE MarkdownBlock(_, _)
MarkdownBlock(state, o) ==
    IF o = <<>> THEN state
    ELSE MarkdownBlock(
             IF state = "none"
             THEN IF Head(o) = <<BT, BT, BT, "r", "u", "s", "t">> THEN "rust"
                  ELSE IF Len(Head(o)) >= 3 /\ SubSeq(Head(o), 1, 3) = <<BT, BT, BT>> THEN "other"
                  ELSE "none"
             ELSE IF Head(o) = <<BT, BT, BT>> THEN "none" ELSE state,
             Tail(o))

\* C16 as claimed: a line that begins with "//! # ", read while the output stands in
\* a block opened by "[3 backticks]rust" and not yet closed, gives no output line.
C16_NoHiddenLineInRustBlock ==
    (/\ LineDone
     /\ Len(line) >= 6 /\ SubSeq(line, 1, 6) = <<"/", "/", "!", " ", "#", " ">>
     /\ MarkdownBlock("none", SubSeq(out, 1, Len(out) - Len(emitted))) = "rust") =>
        emitted = <<>>


-----------------------------------------------------------------------------
(* Properties of fold_data *)

RECURSIVE OffsetOf(_, _)
\* where line i begins in the folded text: after the lines before it and one
\* character for each of them
OffsetOf(d, i) == IF i = 1 THEN 0 ELSE OffsetOf(d, i - 1) + Len(d[i - 1]) + 1

\* C14: fold_data of no line is the empty string and of one line that line; of n
\* lines it is the lines in order with one "\n" between two consecutive lines:
\* n - 1 characters added, none before the first line or after the last.
C14_FoldJoins ==
    (entry = "fold_data" /\ pc = "done") =>
        LET n == Len(fdata) IN
        /\ n = 0 => folded = <<>>
        /\ n = 1 => folded = fdata[1]
        /\ n >= 1 =>
               /\ Len(folded) = OffsetOf(fdata, n) + Len(fdata[n])
               /\ \A i \in 1..n :
                      SubSeq(folded, OffsetOf(fdata, i) + 1,
                             OffsetOf(fdata, i) + Len(fdata[i])) = fdata[i]
               /\ \A i \in 1..(n - 1) :
                      folded[OffsetOf(fdata, i) + Len(fdata[i]) + 1] = "\n"

\* three lines, the second empty: "a\n\n# b"
C14_Witness ==
    /\ entry = "fold_data"
    /\ pc = "done"
    /\ fdata = << <<"a">>, <<>>, <<"#", " ", "b">> >>
    /\ folded = <<"a", "\n", "\n", "#", " ", "b">>

-----------------------------------------------------------------------------
(* More properties of the renderer *)

\* C15: the renderer never panics: each license.unwrap() of process_template (lines
\* 168 and 170) and of the None arm of generate_readme (line 77) is reached only
\* with a license in the crate information.
C15_UnwrapOnlyWithLicense ==
    /\ result # Panic(PANIC_UNWRAP)
    /\ (pc = "license" /\ (add_license \/ contains(tpl, <<"{", "{", "l", "i", "c", "e", "n", "s", "e", "}", "}">>))) =>
           crate_info.license.some
    /\ (pc = "match_template" /\ ~template.some /\ add_license) =>
           crate_info.license.some

\* generate_readme about to unwrap the license at line 77
C15_Witness ==
    /\ entry = "generate_readme"
    /\ pc = "match_template"
    /\ ~template.some
    /\ add_license
    /\ crate_info.license = Some(<<"M", "I", "T">>)

\* tpl holds "{{readme}}" at position i
ReadmeTagAt(t, i) == i + 9 <= Len(t) /\ SubSeq(t, i, i + 9) = <<"{", "{", "r", "e", "a", "d", "m", "e", "}", "}">>

\* the "{{readme}}" of t that begin before position i
TagsBefore(t, i) == Cardinality({k \in 1..(i - 1) : ReadmeTagAt(t, k)})

\* position j of t lies in a "{{readme}}"
InReadmeTag(t, j) == \E k \in (j - 9)..j : k >= 1 /\ ReadmeTagAt(t, k)

\* C18: in a successful render the result is the template (after the crate and
\* license substitutions) with each "{{readme}}" replaced by the final readme (the
\* body with the title and license line it was given) exactly as it is and every
\* other character kept, so "{{crate}}", "{{license}}" or "{{readme}}" inside the
\* body are in the output unchanged.
C18_BodyInsertedLast ==
    (pc = "done" /\ template.some /\ result.kind = "Ok") =>
        LET v == result.val
            grow == Len(readme) - 10
        IN  /\ readme = IF add_license /\ ~HasLicenseTag
                        THEN TitledBody \o LicenseLineOf(crate_info.license.v)
                        ELSE TitledBody
            /\ Len(v) = Len(tpl) + TagsBefore(tpl, Len(tpl) + 1) * grow
            /\ \A i \in 1..Len(tpl) :
                   ReadmeTagAt(tpl, i) =>
                       SubSeq(v, i + TagsBefore(tpl, i) * grow,
                              i + TagsBefore(tpl, i) * grow + Len(readme) - 1) = readme
            /\ \A j \in 1..Len(tpl) :
                   ~InReadmeTag(tpl, j) => v[j + TagsBefore(tpl, j) * grow] = tpl[j]

\* a body that holds the three tags, rendered into the template with all three
C18_Witness ==
    /\ pc = "done"
    /\ template = Some(TEMPLATE_CRATE_LICENSE)
    /\ body = <<"{", "{", "c", "r", "a", "t", "e", "}", "}", " ", "{", "{", "l", "i", "c", "e", "n", "s", "e", "}", "}", " ", "{", "{", "r", "e", "a", "d", "m", "e", "}", "}">>
    /\ result = Ok(<<"#", " ", "m", "y", "_", "c", "r", "a", "t", "e">> \o <<"\n", "\n">> \o <<"{", "{", "c", "r", "a", "t", "e", "}", "}", " ", "{", "{", "l", "i", "c", "e", "n", "s", "e", "}", "}", " ", "{", "{", "r", "e", "a", "d", "m", "e", "}", "}">>
                   \o <<"\n", "\n">> \o <<"L", "i", "c", "e", "n", "s", "e", ":", " ", "M", "I", "T">>)

-----------------------------------------------------------------------------
(* Properties of project_root_dir *)

\* the lowest of the directories that hold a file Cargo.toml
NearestManifest == CHOOSE d \in manifests : \A e \in manifests : Len(e) <= Len(d)

\* C17 as claimed: project_root_dir returns the nearest of the current directory and
\* the directories above it, the filesystem root included, that holds a file
\* Cargo.toml, and None only if none of them does.
C17_NearestManifestRootIncluded ==
    (entry = "project_root_dir" /\ pc = "done") =>
        found = IF manifests = {} THEN None ELSE Some(NearestManifest)

====
